---- MODULE Spec2Model ----
(***************************************************************************)
(* A model of wtpa2.py, the WTPA2 sample packer / extractor.               *)
(*                                                                         *)
(* The program is Python 2 (ord() of a byte of a str read from a file,     *)
(* slot/8 as an integer division, a str assigned to a bytearray slice);    *)
(* the model follows Python 2 semantics.                                   *)
(*                                                                         *)
(* Byte strings (the archive on disk, frame data, values read or written)  *)
(* are kept sparse: a record [len, ext] where ext is a set of extents      *)
(* [off, b, n] (n copies of the non-zero byte b from offset off); every    *)
(* offset below len that no extent covers holds the byte 0.  The archive   *)
(* is 512 + 512 * 524288 bytes long, so it is never expanded byte by byte. *)
(***************************************************************************)
EXTENDS Integers, Sequences, FiniteSets, TLC

\* ---------------------------------------------------------------- bounds

\* Longest list of input paths given to pack in Spec.
MaxFiles == 2
\* Number of eligible samples after the first 512 in the long run of SpecFull.
ExtraSamples == 1
\* Number of distinct entry names available inside a directory in SpecDir.
NumNames == 2

\* ------------------------------------------------------ program constants

\* self.toc_offset = 16
toc_offset == 16
\* bytearray(512), outfile.seek(512), outfile.read(512)
HeaderSize == 512
\* 512*1024: the size of one slot, and the largest accepted frame count
SlotSize == 512 * 1024
\* samples=512, the default number of slots unpack examines
NumSlots == 512
\* the sample rate that draws no warning, and the rate of every extracted file
TargetRate == 22050

\* "WTPA" and "SAMP" as byte values
MagicWTPA == <<87, 84, 80, 65>>
MagicSAMP == <<83, 65, 77, 80>>

Min(a, b) == IF a < b THEN a ELSE b
Max(a, b) == IF a > b THEN a ELSE b

\* ------------------------------------------------------------ byte strings

\* n copies of byte b (what readframes returns for a sample of n equal frames)
Fill(b, n) ==
    [len |-> n,
     ext |-> IF b = 0 \/ n = 0 THEN {} ELSE {[off |-> 0, b |-> b, n |-> n]}]

\* the byte string holding the bytes of the sequence s
BlobOfSeq(s) ==
    [len |-> Len(s),
     ext |-> {[off |-> i - 1, b |-> s[i], n |-> 1] : i \in {j \in 1..Len(s) : s[j] # 0}}]

\* the byte at offset p (0-based) of byte string x, p < x.len
ByteAt(x, p) ==
    LET hit == {e \in x.ext : e.off <= p /\ p < e.off + e.n}
    IN  IF hit = {} THEN 0 ELSE (CHOOSE e \in hit : TRUE).b

\* the bytes of x as a sequence (used for the 512-byte header only)
SeqOfBlob(x) == [i \in 1..x.len |-> ByteAt(x, i - 1)]

\* the part of extent e inside [lo, hi), moved by -shift; n <= 0 when empty
Clip(e, lo, hi, shift) ==
    [off |-> Max(e.off, lo) - shift,
     b   |-> e.b,
     n   |-> Min(e.off + e.n, hi) - Max(e.off, lo)]

\* file.read(n) at position pos of a file holding `file`: short at end of file
FileRead(file, pos, n) ==
    LET got == Max(0, Min(n, file.len - pos))
        cut == {Clip(e, pos, pos + got, pos) : e \in file.ext}
    IN  [len |-> got, ext |-> {e \in cut : e.n > 0}]

\* file.write(x) at position pos: bytes between the old end and pos read as 0
FileWrite(file, pos, x) ==
    LET end    == pos + x.len
        before == {Clip(e, 0, pos, 0) : e \in file.ext}
        after  == {Clip(e, end, Max(end, file.len), 0) : e \in file.ext}
        new    == {[off |-> e.off + pos, b |-> e.b, n |-> e.n] : e \in x.ext}
    IN  IF x.len = 0 THEN file
        ELSE [len |-> Max(file.len, end),
              ext |-> {e \in before \cup after : e.n > 0} \cup new]

\* file.seek(offset, whence) from position pos: the new position
Seek(pos, offset, whence) == IF whence = 1 THEN pos + offset ELSE offset

\* struct.pack('>I', n): 4 bytes, most significant first
PackBE32(n) ==
    BlobOfSeq(<<(n \div 16777216) % 256, (n \div 65536) % 256,
                (n \div 256) % 256, n % 256>>)

\* struct.unpack('>I', x)[0] for a 4-byte string x
UnpackBE32(x) ==
    ByteAt(x, 0) * 16777216 + ByteAt(x, 1) * 65536 + ByteAt(x, 2) * 256 + ByteAt(x, 3)

\* ------------------------------------------------------------ the header

\* x + y
Concat(x, y) == FileWrite(x, x.len, y)

\* buf[lo:hi] = val on a bytearray: the slice is replaced by all of val,
\* whatever its length
SliceAssign(buf, lo, hi, val) ==
    Concat(Concat(FileRead(buf, 0, lo), BlobOfSeq(val)),
           FileRead(buf, hi, buf.len - hi))

\* s[lo:hi] of a str, as a sequence of byte values: cut short at the end of s
Slice(s, lo, hi) == SeqOfBlob(FileRead(s, lo, hi - lo))

\* self.header = bytearray(512)
NewHeader == Fill(0, HeaderSize)

\* self.header[0:3] = "WTPA"; self.header[4:7] = "SAMP"
SetMagics(h) == SliceAssign(SliceAssign(h, 0, 3, MagicWTPA), 4, 7, MagicSAMP)

\* byte & (1 << k) for a byte in 0..255: no bit of a byte is at position k >= 8
AndBit(byte, k) == IF k >= 8 THEN 0 ELSE ((byte \div (2 ^ k)) % 2) * (2 ^ k)

\* byte | (1 << k) for k in 0..7
OrBit(byte, k) == IF AndBit(byte, k) # 0 THEN byte ELSE byte + 2 ^ k

\* self.header[self.toc_offset + (n/8)] |= (1 << (n%8))
MarkSlot(h, n) ==
    FileWrite(h, toc_offset + (n \div 8),
              BlobOfSeq(<<OrBit(ByteAt(h, toc_offset + (n \div 8)), n % 8)>>))

\* ord(self.header[self.toc_offset + (slot/8)]) & (1 << slot), as a truth value
sample_in_slot(h, slot) == AndBit(ByteAt(h, toc_offset + (slot \div 8)), slot) # 0

\* seek(512) and then seek((512*1024)*slot, 1): the position reached
seek_to_slot(slot) == Seek(Seek(0, HeaderSize, 0), SlotSize * slot, 1)

\* header[0:4] == "WTPA" and header[4:8] == "SAMP"
MagicWTPAFound(h) == Slice(h, 0, 4) = MagicWTPA
\* MagicSAMPFound without the comparison
MagicSAMPAssumed(h) == TRUE

MagicSAMPFound(h) == Slice(h, 4, 8) = MagicSAMP

\* ------------------------------------------------------------- the inputs

\* what aifc.open(path) gives for a file: a reader (raises = "none") of
\* nframes frames, each the byte fill, or an exception
Sample(w, c, rate, n, fill) ==
    [raises |-> "none", sampwidth |-> w, nchannels |-> c, framerate |-> rate,
     nframes |-> n, fill |-> fill]
Raises(e) ==
    [raises |-> e, sampwidth |-> 0, nchannels |-> 0, framerate |-> 0,
     nframes |-> 0, fill |-> 0]
\* a file that is no AIFF: aifc.open raises aifc.Error
NotAiff == Raises("aifc.Error")
\* a file shorter than the 8 bytes of a chunk header (an empty file): the
\* Chunk that aifc.open reads first raises EOFError, which is no aifc.Error
TooShort == Raises("EOFError")

\* s.readframes(s.getnframes())
Frames(s) == Fill(s.fill, s.nframes)

Small   == Sample(1, 1, TargetRate, 3, 17)
OffRate == Sample(1, 1, 2 * TargetRate, 5, 34)
Long64K == Sample(1, 1, TargetRate, 65536, 51)
Fits    == Sample(1, 1, TargetRate, SlotSize - 4, 68)
Whole   == Sample(1, 1, TargetRate, SlotSize, 85)
Wide    == Sample(2, 1, TargetRate, 3, 102)
Stereo  == Sample(1, 2, TargetRate, 3, 119)
TooLong == Sample(1, 1, TargetRate, SlotSize + 1, 136)

Kinds ==
    {Small, OffRate, Long64K, Fits, Whole, Wide, Stereo, TooLong, NotAiff, TooShort}

\* a path of the file system: nothing, a regular file, or a directory whose
\* entries are named by numbers ordered as the names are (1 = "a", 2 = "b", ...)
Missing    == [type |-> "missing", s |-> NotAiff, ents |-> <<>>]
File(s)    == [type |-> "file", s |-> s, ents |-> <<>>]
Dir(ents)  == [type |-> "dir", s |-> NotAiff, ents |-> ents]

\* b.aiff, a.aiff and z/c.aiff  (a = 1, b = 2, c = 3, z = 26)
ExampleDir ==
    Dir((2 :> File(Small)) @@ (1 :> File(Small))
        @@ (26 :> Dir((3 :> File(Small)))))

\* the most recent step of unpack: none yet
NoCall == [src |-> "none", dest |-> "none", samples |-> 0, at |-> "none"]

\* the calls of unpack considered: src is how the source path classifies
\* (lines 51-70), dest how the destination does (lines 72-81)
Call(src, dst, samples) ==
    [src |-> src, dest |-> dst, samples |-> samples, at |-> "none"]
Calls ==
    {Call("file", "dir", NumSlots),
     Call("file", "dir", 1),
     Call("blockdev", "created", NumSlots),
     Call("missing", "dir", NumSlots),
     Call("notdev", "dir", NumSlots),
     Call("file", "mkfail", NumSlots),
     Call("file", "notdir", NumSlots)}

EmptyFile == [len |-> 0, ext |-> {}]
NoFiles == [x \in {} |-> EmptyFile]

VARIABLES
    pc,           \* where the program is: "start", "loop" (in pack's for loop),
                  \* "aborted" (pack ended by an exception), "packed",
                  \* "extracted", "raised" (unpack ended by an exception)
    infiles,      \* pack's list of input paths
    i,            \* how many of infiles the for loop of pack has taken
    stack,        \* the calls of process_dir in progress, innermost last
    num_samples,  \* self.num_samples
    header,       \* self.header
    disk,         \* the bytes of the archive file
    outfile,      \* self.outfile: [open, pos]
    dest,         \* the sample files written by unpack, by slot index
    present,      \* the slots for which sample_in_slot answered true
    call,         \* the arguments of the call of unpack, and where pack was
    console,      \* what the last step printed
    accepted      \* the samples written so far: path, slot, offset, frames

vars == <<pc, infiles, i, stack, num_samples, header, disk, outfile, dest,
          present, call, console, accepted>>

\* WTPA2(), the arguments of pack, and the bytes of the archive file if there
\* is one already
Construct(files, archive) ==
    /\ pc = "start"
    /\ infiles = files
    /\ i = 0
    /\ stack = <<>>
    /\ num_samples = 0
    /\ header = NewHeader
    /\ disk = archive
    /\ outfile = [open |-> FALSE, pos |-> 0]
    /\ dest = NoFiles
    /\ present = {}
    /\ call = NoCall
    /\ console = <<>>
    /\ accepted = <<>>

\* ------------------------------------------------------------ process_file

\* the else branch of process_file is taken: width 1, mono, not too long
Eligible(s) ==
    /\ s.raises = "none"
    /\ ~(s.sampwidth # 1)
    /\ ~(s.nchannels # 1)
    /\ ~(s.nframes > SlotSize)

\* what process_file prints for a file it does not pack
SkipMessage(s) ==
    IF s.raises # "none" THEN "SKIPPED: Not an AIFF"
    ELSE IF s.sampwidth # 1 THEN "SKIPPED: Sample width"
    ELSE IF s.nchannels # 1 THEN "SKIPPED: Number of channels"
    ELSE "SKIPPED: Sample too long"

\* NextSlotSeek without the 4 bytes of the length prefix
NextSlotSeekNoPrefix(n) == SlotSize - n

\* the offset of the relative seek that ends the writing of a sample
NextSlotSeek(n) == SlotSize - n - 4

\* the except clause of process_file catches what aifc.open raised
Caught(s) == s.raises = "aifc.Error"

\* process_file(path) for a file that aifc.open answers with s
process_file(path, s) ==
    IF s.raises # "none" /\ ~Caught(s)
    THEN /\ pc' = "aborted"
         /\ console' = <<"Traceback: " \o s.raises>>
         /\ UNCHANGED <<header, num_samples, disk, outfile, accepted>>
    ELSE IF Eligible(s)
    THEN /\ pc' = pc
         /\ header' = MarkSlot(header, num_samples)
         /\ num_samples' = num_samples + 1
         /\ disk' = FileWrite(FileWrite(disk, outfile.pos, PackBE32(s.nframes)),
                              outfile.pos + 4, Frames(s))
         /\ outfile' = [outfile EXCEPT
                !.pos = Seek(outfile.pos + 4 + s.nframes, NextSlotSeek(s.nframes), 1)]
         /\ console' = (IF s.framerate # TargetRate
                        THEN <<"WARNING: Incorrect sample rate">> ELSE <<>>)
                       \o <<"OK: Wrote sample to slot">>
         /\ accepted' = Append(accepted,
                [path |-> path, slot |-> num_samples, off |-> outfile.pos,
                 frames |-> Frames(s)])
    ELSE /\ pc' = pc
         /\ console' = <<SkipMessage(s)>>
         /\ UNCHANGED <<header, num_samples, disk, outfile, accepted>>

\* ------------------------------------------------------------- process_dir

\* SortNames in descending order
SortNamesDescending(S) ==
    CHOOSE q \in [1..Cardinality(S) -> S] :
        \A a, b \in 1..Cardinality(S) : a < b => q[a] > q[b]

\* list.sort() of a list holding the names of S, in whatever order listdir
\* gave them: the names in ascending order
SortNames(S) ==
    CHOOSE q \in [1..Cardinality(S) -> S] :
        \A a, b \in 1..Cardinality(S) : a < b => q[a] < q[b]

\* the start of process_dir(path): the two sorted lists it goes through
process_dir(path, node) ==
    [path  |-> path,
     node  |-> node,
     files |-> SortNames({n \in DOMAIN node.ents : node.ents[n].type = "file"}),
     dirs  |-> SortNames({n \in DOMAIN node.ents : node.ents[n].type = "dir"})]

Top == stack[Len(stack)]
Pop == SubSeq(stack, 1, Len(stack) - 1)

\* ------------------------------------------------------------------- pack

\* PackOpen writing the header before the samples
PackOpenHeaderFirst ==
    /\ pc = "start"
    /\ header' = SetMagics(header)
    /\ disk' = FileWrite(EmptyFile, 0, SetMagics(header))
    /\ outfile' = [open |-> TRUE, pos |-> Seek(0, HeaderSize, 0)]
    /\ pc' = "loop"
    /\ console' = <<>>
    /\ UNCHANGED <<infiles, i, stack, num_samples, dest, present, call, accepted>>

\* pack, up to the for loop: the magics, open(outfile, "wb"), seek(512)
PackOpen ==
    /\ pc = "start"
    /\ header' = SetMagics(header)
    /\ disk' = EmptyFile
    /\ outfile' = [open |-> TRUE, pos |-> Seek(0, HeaderSize, 0)]
    /\ pc' = "loop"
    /\ console' = <<>>
    /\ UNCHANGED <<infiles, i, stack, num_samples, dest, present, call, accepted>>

\* the for loop of pack at a path that does not exist
PackMissing ==
    /\ pc = "loop" /\ stack = <<>> /\ i < Len(infiles)
    /\ infiles[i + 1].type = "missing"
    /\ i' = i + 1
    /\ console' = <<"does not exist, skipping">>
    /\ UNCHANGED <<pc, infiles, stack, num_samples, header, disk, outfile, dest,
                   present, call, accepted>>

\* the for loop of pack at a regular file
PackFile ==
    /\ pc = "loop" /\ stack = <<>> /\ i < Len(infiles)
    /\ infiles[i + 1].type = "file"
    /\ i' = i + 1
    /\ process_file(<<i + 1>>, infiles[i + 1].s)
    /\ UNCHANGED <<infiles, stack, dest, present, call>>

\* the for loop of pack at a directory: process_dir is entered
PackDir ==
    /\ pc = "loop" /\ stack = <<>> /\ i < Len(infiles)
    /\ infiles[i + 1].type = "dir"
    /\ i' = i + 1
    /\ stack' = <<process_dir(<<i + 1>>, infiles[i + 1])>>
    /\ console' = <<"Processing directory">>
    /\ UNCHANGED <<pc, infiles, num_samples, header, disk, outfile, dest,
                   present, call, accepted>>

\* for f in files: self.process_file(os.path.join(path, f))
DirFile ==
    /\ pc = "loop" /\ stack # <<>> /\ Top.files # <<>>
    /\ stack' = [stack EXCEPT ![Len(stack)].files = Tail(@)]
    /\ process_file(Top.path \o <<Head(Top.files)>>, Top.node.ents[Head(Top.files)].s)
    /\ UNCHANGED <<infiles, i, dest, present, call>>

\* for d in dirs: self.process_dir(os.path.join(path, d))
DirEnter ==
    /\ pc = "loop" /\ stack # <<>> /\ Top.files = <<>> /\ Top.dirs # <<>>
    /\ stack' = Append([stack EXCEPT ![Len(stack)].dirs = Tail(@)],
                       process_dir(Top.path \o <<Head(Top.dirs)>>,
                                   Top.node.ents[Head(Top.dirs)]))
    /\ console' = <<"Processing directory">>
    /\ UNCHANGED <<pc, infiles, i, num_samples, header, disk, outfile, dest,
                   present, call, accepted>>

\* process_dir returns
DirReturn ==
    /\ pc = "loop" /\ stack # <<>> /\ Top.files = <<>> /\ Top.dirs = <<>>
    /\ stack' = Pop
    /\ console' = <<>>
    /\ UNCHANGED <<pc, infiles, i, num_samples, header, disk, outfile, dest,
                   present, call, accepted>>

\* pack, after the for loop: seek(0), write(self.header), close()
PackFlush ==
    /\ pc = "loop" /\ stack = <<>> /\ i = Len(infiles)
    /\ disk' = FileWrite(disk, Seek(outfile.pos, 0, 0), header)
    /\ outfile' = [open |-> FALSE, pos |-> Seek(outfile.pos, 0, 0) + header.len]
    /\ pc' = "packed"
    /\ console' = <<>>
    /\ UNCHANGED <<infiles, i, stack, num_samples, header, dest, present, call,
                   accepted>>

NextPack ==
    \/ PackOpen
    \/ PackMissing
    \/ PackFile
    \/ PackDir
    \/ DirFile
    \/ DirEnter
    \/ DirReturn
    \/ PackFlush

\* ----------------------------------------------------------------- unpack

\* lines 51-81 leave src and dest both non-empty.  src is "missing", "file",
\* "blockdev" (a block device on Linux and Darwin, a drive on Windows) or
\* "notdev" (anything else that exists); dest is "dir", "created" (makedirs
\* succeeded), "mkfail" (makedirs raised OSError) or "notdir"
PathsUsable(c) ==
    /\ c.src \in {"file", "blockdev"}
    /\ c.dest \in {"dir", "created"}

\* what lines 51-81 print
PathMessages(c) ==
    (CASE c.src = "missing" -> <<"ERROR: does not exist">>
       [] c.src = "file" -> <<"Reading from file">>
       [] c.src = "blockdev" -> <<"Reading from device">>
       [] OTHER -> <<"ERROR: is not a device">>)
    \o (CASE c.dest = "mkfail" -> <<"ERROR: Creating directory failed">>
          [] c.dest = "notdir" -> <<"ERROR: exists, but is not a directory">>
          [] OTHER -> <<>>)

\* the 4 bytes read at the start of slot x, and the frames read after them
SlotSize4(x) == FileRead(disk, seek_to_slot(x), 4)
SlotData(x) == FileRead(disk, seek_to_slot(x) + 4, UnpackBE32(SlotSize4(x)))

\* iteration x of the for loop of unpack raises: the header has no byte for
\* the slot (IndexError), or fewer than 4 bytes are left to read (struct.error)
IndexRaises(h, x) == toc_offset + (x \div 8) >= h.len
SlotRaises(h, x) ==
    \/ IndexRaises(h, x)
    \/ sample_in_slot(h, x) /\ SlotSize4(x).len < 4

\* the for loop of unpack over range(0, samples) with the header h
Scan(h, c) ==
    LET bad   == {x \in 0..(c.samples - 1) : SlotRaises(h, x)}
        stop  == IF bad = {} THEN c.samples
                 ELSE CHOOSE x \in bad : \A y \in bad : x <= y
        found == {x \in 0..(stop - 1) : sample_in_slot(h, x)}
        tried == found \cup {x \in bad : x = stop /\ ~IndexRaises(h, x)}
        last  == CHOOSE x \in tried : \A y \in tried : y <= x
    IN  /\ dest' = [x \in found |-> SlotData(x)]
        /\ present' = tried
        /\ outfile' =
             [open |-> bad # {},
              pos  |-> IF tried = {} THEN h.len
                       ELSE IF last \in found
                            THEN seek_to_slot(last) + 4 + SlotData(last).len
                            ELSE seek_to_slot(last) + SlotSize4(last).len]
        /\ pc' = IF bad = {} THEN "extracted" ELSE "raised"
        /\ console' = PathMessages(c) \o
                      (IF found = {} THEN <<>> ELSE <<"Writing Sample from slot">>)

\* unpack(src, dest, samples) on the archive file as it is now
unpack(c) ==
    /\ pc \in {"start", "loop", "aborted", "packed"}
    /\ call' = [c EXCEPT !.at = pc]
    /\ IF ~PathsUsable(c)
       THEN /\ pc' = "extracted"
            /\ console' = PathMessages(c)
            /\ UNCHANGED <<header, outfile, dest, present>>
       ELSE LET h == FileRead(disk, 0, HeaderSize)
            IN  /\ header' = h
                /\ IF ~MagicWTPAFound(h)
                   THEN /\ console' = PathMessages(c) \o <<"ERROR: WTPA data not found.">>
                        /\ outfile' = [open |-> FALSE, pos |-> h.len]
                        /\ pc' = "extracted"
                        /\ UNCHANGED <<dest, present>>
                   ELSE IF ~MagicSAMPFound(h)
                   THEN /\ console' = PathMessages(c)
                                      \o <<"ERROR: WTPA Sample data not found.">>
                        /\ outfile' = [open |-> FALSE, pos |-> h.len]
                        /\ pc' = "extracted"
                        /\ UNCHANGED <<dest, present>>
                   ELSE Scan(h, c)
    /\ UNCHANGED <<infiles, i, stack, num_samples, disk, accepted>>

Unpack == \E c \in Calls : unpack(c)

\* ------------------------------------------------------ the specifications

\* Spec: pack of every list of at most MaxFiles paths, each missing, a file
\* of one of Kinds or the directory ExampleDir; unpack may run on the archive
\* at any point (after pack, or on what an interrupted pack left)
TopInputs == {Missing, ExampleDir} \cup {File(s) : s \in Kinds}
InputLists == UNION {[1..k -> TopInputs] : k \in 0..MaxFiles}

Init == \E files \in InputLists : Construct(files, EmptyFile)
Next == NextPack \/ Unpack
Spec == Init /\ [][Next]_vars

\* SpecFull: pack of one long list holding more eligible samples than the
\* archive has slots
LongList ==
    <<Missing, File(Stereo), ExampleDir>>
    \o [k \in 1..(NumSlots - 3 + ExtraSamples) |-> File(Small)]

InitFull == Construct(LongList, EmptyFile)
SpecFull == InitFull /\ [][NextPack]_vars

\* SpecDir: pack of a directory tree, alone or with one more path before or
\* after it.  An entry name is a number of 1..NumNames; a tree holds files
\* and directories of files.
Names == 1..NumNames
DirOf(f) == Dir([n \in {m \in Names : f[m].type # "missing"} |-> f[n]])
Leaves == {DirOf(f) : f \in [Names -> {Missing, File(Small)}]}
Trees == {DirOf(f) : f \in [Names -> {Missing, File(Small)} \cup Leaves]}
Others == {Missing, File(Small), File(Stereo)}

InitDir ==
    \E t \in Trees \cup {ExampleDir} :
        \E files \in {<<t>>} \cup {<<t, x>> : x \in Others}
                     \cup {<<x, t>> : x \in Others} :
            Construct(files, EmptyFile)
SpecDir == InitDir /\ [][NextPack]_vars

\* SpecBitmap: the packer's mark of one slot in a zeroed header, then the
\* extractor's test of every slot
BitmapMark ==
    /\ pc = "bitmap"
    /\ header' = MarkSlot(header, num_samples)
    /\ pc' = "marked"
    /\ UNCHANGED <<infiles, i, stack, num_samples, disk, outfile, dest, present,
                   call, console, accepted>>

BitmapTest ==
    /\ pc = "marked"
    /\ present' = {x \in 0..(NumSlots - 1) : sample_in_slot(header, x)}
    /\ pc' = "tested"
    /\ UNCHANGED <<infiles, i, stack, num_samples, header, disk, outfile, dest,
                   call, console, accepted>>

InitBitmap ==
    /\ pc = "bitmap"
    /\ num_samples \in 0..(NumSlots - 1)
    /\ header = NewHeader
    /\ infiles = <<>> /\ i = 0 /\ stack = <<>>
    /\ disk = EmptyFile
    /\ outfile = [open |-> FALSE, pos |-> 0]
    /\ dest = NoFiles /\ present = {}
    /\ call = NoCall /\ console = <<>> /\ accepted = <<>>
NextBitmap == BitmapMark \/ BitmapTest
SpecBitmap == InitBitmap /\ [][NextBitmap]_vars

\* SpecExtract: unpack of a file that pack did not write: 8 bytes that are
\* the magics or differ from them, a first bitmap byte, and slots
BothMagics == MagicWTPA \o MagicSAMP
ForeignMagics ==
    {BothMagics, MagicSAMP \o MagicWTPA, [k \in 1..8 |-> 0]}
    \cup {[BothMagics EXCEPT ![k] = 0] : k \in 1..8}
    \cup {[BothMagics EXCEPT ![k] = @ + 32] : k \in 1..8}

ForeignSlot(x) == Concat(PackBE32(3 + x), Fill(17 + x, 3 + x))
ForeignArchive(m, bits, slots) ==
    LET h == FileWrite(FileWrite(NewHeader, 0, BlobOfSeq(m)),
                       toc_offset, BlobOfSeq(<<bits>>))
    IN  IF slots = 0 THEN h
        ELSE IF slots = 1 THEN FileWrite(h, seek_to_slot(0), ForeignSlot(0))
        ELSE FileWrite(FileWrite(h, seek_to_slot(0), ForeignSlot(0)),
                       seek_to_slot(1), ForeignSlot(1))
ForeignArchives ==
    {EmptyFile} \cup
    {ForeignArchive(m, bits, slots) :
        m \in ForeignMagics, bits \in {0, 1, 3, 255}, slots \in 0..2}

InitExtract == \E a \in ForeignArchives : Construct(<<>>, a)
SpecExtract == InitExtract /\ [][Unpack]_vars

\* ---------------------------------------------------------- the properties

\* x and y hold the same bytes, whatever the extents that represent them
SameBytes(x, y) ==
    /\ x.len = y.len
    /\ \A p \in {0} \cup {e.off : e \in x.ext \cup y.ext}
                    \cup {e.off + e.n : e \in x.ext \cup y.ext} :
          p < x.len => ByteAt(x, p) = ByteAt(y, p)

\* unpack has run, with usable paths, on the archive as pack left it at `at`
Unpacked(at) ==
    /\ pc \in {"extracted", "raised"}
    /\ call.at \in at
    /\ PathsUsable(call)

\* unpack printed one of its two magic errors last
MagicError ==
    /\ console # <<>>
    /\ console[Len(console)] \in {"ERROR: WTPA data not found.",
                                  "ERROR: WTPA Sample data not found."}

\* C1: after a complete pack, unpack with max_slots = 512 writes one file per
\* accepted sample, named after the sample's slot index, the k-th accepted
\* sample in slot k - 1, holding exactly the frames that were packed.
C1_RoundTrip ==
    (Unpacked({"packed"}) /\ call.samples = 512) =>
        /\ pc = "extracted"
        /\ DOMAIN dest = {accepted[k].slot : k \in DOMAIN accepted}
        /\ \A k \in DOMAIN accepted :
              /\ accepted[k].slot = k - 1
              /\ accepted[k].slot \in DOMAIN dest
              /\ SameBytes(dest[accepted[k].slot], accepted[k].frames)

\* C2: at every point of a pack run num_samples <= 512, no byte of the header
\* after the 64-byte bitmap (bytes 16..79) is set, and nothing is written at
\* or beyond offset 512 + 512 * 524288.
C2_Capacity ==
    pc \in {"loop", "packed"} =>
        /\ num_samples <= 512
        /\ \A e \in header.ext : e.off + e.n <= 16 + 64
        /\ disk.len <= 512 + 512 * 524288

\* C3: after the packer marks slot i in a zeroed bitmap, the extractor's
\* sample_in_slot(j) is true for j = i and false for every other j in [0,512).
C3_BitmapAgreement ==
    pc = "tested" => present = {num_samples}

\* C4: every accepted sample's 4-byte length prefix and frames fit in its own
\* 524288-byte slot, so that while pack runs every accepted sample's frames
\* are still whole on disk after the later samples were written.
C4_PayloadFits ==
    pc \in {"loop", "packed"} =>
        \A k \in DOMAIN accepted :
            /\ 4 + accepted[k].frames.len <= 524288
            /\ SameBytes(FileRead(disk, accepted[k].off + 4, accepted[k].frames.len),
                         accepted[k].frames)

\* C5: the header buffer of pack is 512 bytes long at every point of the run,
\* and after the final flush every accepted sample's 4-byte frame count is
\* still on disk at the start of its slot.
C5_HeaderFlush ==
    pc \in {"loop", "packed"} =>
        /\ header.len = 512
        /\ pc = "packed" =>
              \A k \in DOMAIN accepted :
                  SameBytes(FileRead(disk, accepted[k].off, 4),
                            PackBE32(accepted[k].frames.len))

\* the file the next step of pack gives to process_file, if any
FileIsNext ==
    /\ pc = "loop"
    /\ IF stack # <<>> THEN Top.files # <<>>
       ELSE i < Len(infiles) /\ infiles[i + 1].type = "file"
NextSample ==
    IF stack # <<>> THEN Top.node.ents[Head(Top.files)].s ELSE infiles[i + 1].s

\* a file that does not decode, is not 1 byte wide, is not mono, or has more
\* than 524288 frames
Rejectable(s) ==
    \/ s.raises # "none"
    \/ s.sampwidth # 1
    \/ s.nchannels # 1
    \/ s.nframes > 524288

\* C6: the step of pack that processes a rejectable file leaves num_samples,
\* the header, the output file's bytes and its position unchanged, prints a
\* skip, and leaves pack in its loop at the next input.
C6_Filtering ==
    [][(FileIsNext /\ Rejectable(NextSample) /\ call' = call /\ vars' # vars) =>
          /\ UNCHANGED <<num_samples, header, disk, outfile, accepted>>
          /\ pc' = "loop"
          /\ console' = <<SkipMessage(NextSample)>>
          /\ IF stack # <<>>
             THEN /\ Len(stack') = Len(stack)
                  /\ stack'[Len(stack)].files = Tail(Top.files)
                  /\ i' = i
             ELSE /\ stack' = <<>>
                  /\ i' = i + 1]_vars

\* C7: when the first 8 bytes of the source are not "WTPASAMP", unpack prints
\* a magic error, its position stays within the 512-byte header, it writes no
\* sample file whatever the bitmap holds, and it closes the source.
C7_ExtractSafety ==
    (Unpacked({"start"}) /\ Slice(disk, 0, 8) # <<87, 84, 80, 65, 83, 65, 77, 80>>) =>
        /\ pc = "extracted"
        /\ MagicError
        /\ outfile.pos <= 512
        /\ ~outfile.open
        /\ dest = NoFiles
        /\ present = {}

\* C7's case: "WTPA" without "SAMP", a full first bitmap byte and slot data
C7_Witness ==
    /\ Unpacked({"start"})
    /\ Slice(disk, 0, 4) = MagicWTPA
    /\ Slice(disk, 4, 8) # MagicSAMP
    /\ ByteAt(disk, 16) = 255
    /\ disk.len > 512
    /\ dest = NoFiles

\* path p comes before path q: at the first place they differ, the earlier
\* argument of pack; inside a directory a file before a subdirectory, two
\* files or two subdirectories by name
Before(p, q) ==
    \E k \in 1..Min(Len(p), Len(q)) :
        /\ \A j \in 1..(k - 1) : p[j] = q[j]
        /\ p[k] # q[k]
        /\ IF k = 1 THEN p[k] < q[k]
           ELSE IF (k = Len(p)) = (k = Len(q)) THEN p[k] < q[k]
           ELSE k = Len(p)

\* the files below directory d, to two levels
FilesOfDir(d) ==
    {<<n>> : n \in {m \in DOMAIN d.ents : d.ents[m].type = "file"}}
FilesUnder(d) ==
    FilesOfDir(d) \cup
    UNION {{<<n>> \o p : p \in FilesOfDir(d.ents[n])} :
              n \in {m \in DOMAIN d.ents : d.ents[m].type = "dir"}}
\* the paths of the files pack is to accept
PathsToPack ==
    UNION {IF infiles[a].type = "dir"
           THEN {<<a>> \o p : p \in FilesUnder(infiles[a])}
           ELSE IF infiles[a].type = "file" /\ ~Rejectable(infiles[a].s)
           THEN {<<a>>} ELSE {} : a \in 1..Len(infiles)}

\* C8: slots go to the accepted files in the order of the arguments, in a
\* directory to its files by name before its subdirectories by name, depth
\* first; at the end every file to pack has a slot.
C8_TraversalOrder ==
    /\ \A a, b \in DOMAIN accepted :
          Before(accepted[a].path, accepted[b].path) =>
              accepted[a].slot < accepted[b].slot
    /\ {accepted[k].path : k \in DOMAIN accepted} \subseteq PathsToPack
    /\ pc = "packed" => {accepted[k].path : k \in DOMAIN accepted} = PathsToPack

\* C8's case: b.aiff, a.aiff and z/c.aiff get slots 0 (a), 1 (b), 2 (z/c)
C8_Witness ==
    /\ pc = "packed"
    /\ infiles = <<ExampleDir>>
    /\ Len(accepted) = 3
    /\ accepted[1].path = <<1, 1>> /\ accepted[1].slot = 0
    /\ accepted[2].path = <<1, 2>> /\ accepted[2].slot = 1
    /\ accepted[3].path = <<1, 26, 3>> /\ accepted[3].slot = 2

\* C9: while pack is in its loop, or was ended there, the first 8 bytes of
\* the output are not "WTPASAMP" and no byte of the header region is set; an
\* unpack of the output of a pack interrupted there prints a magic error and
\* extracts nothing.
C9_HeaderLast ==
    /\ pc \in {"loop", "aborted"} =>
          /\ Slice(disk, 0, 8) # <<87, 84, 80, 65, 83, 65, 77, 80>>
          /\ \A e \in disk.ext : e.off >= 512
    /\ Unpacked({"loop", "aborted"}) =>
          /\ pc = "extracted"
          /\ MagicError
          /\ dest = NoFiles

\* C9's case: unpack ran on the output of a pack interrupted after it had
\* written two samples
C9_Witness ==
    /\ Unpacked({"loop"})
    /\ num_samples = 2
    /\ disk.len > 524288
    /\ dest = NoFiles

\* C10: while pack is in its loop the output position is
\* 512 + num_samples * 524288; the k-th accepted sample's length prefix was
\* written at 512 + k * 524288, which is where seek_to_slot(k) goes; and
\* seek_to_slot(x) = 512 + x * 524288 for every x in [0,512).
C10_SlotAddressing ==
    /\ pc = "loop" => outfile.pos = 512 + num_samples * 524288
    /\ \A k \in DOMAIN accepted :
          /\ accepted[k].off = 512 + (k - 1) * 524288
          /\ seek_to_slot(accepted[k].slot) = accepted[k].off
    /\ \A x \in 0..511 : seek_to_slot(x) = 512 + x * 524288

\* C10's case: a sample of 524288 frames, then one of 65536 frames packed
\* right after it
C10_Witness ==
    /\ pc = "loop"
    /\ Len(accepted) = 2
    /\ accepted[1].frames.len = 524288
    /\ accepted[2].frames.len = 65536
    /\ accepted[2].off = 512 + 524288
====
